---------------------------- MODULE Spec2Model ----------------------------
(***************************************************************************)
(* setup.py of thermod-monitor-mqtt: get_version() scans the script        *)
(* 'thermod-monitor-mqtt' for the first line that starts with              *)
(* '__version__', executes that line and returns the value it binds;       *)
(* get_readme() reads README.md; setup() receives both.                    *)
(*                                                                         *)
(* Text is a sequence of tokens.  Every token is one character, except     *)
(* Marker (the eleven characters of '__version__') and CodingComment (the  *)
(* comment that get_version() puts before the line).  The concrete text    *)
(* is the concatenation of the tokens.                                     *)
(***************************************************************************)
EXTENDS Integers, Sequences, FiniteSets

\* ------------------------------------------------------------ bounds

\* Longest version script, in tokens.
MaxFileLen == 6

\* Longest README.md, in characters.
MaxReadmeLen == 3

\* ------------------------------------------------------------ text

Marker == "__version__"
NL == "\n"
CR == "\r"
BSL == "\\"
QUOTE == "'"
CodingComment == "# -*- coding: utf-8 -*-"

\* The characters a line of the script is made of, and those of the script.
Tok == {Marker, " ", "=", QUOTE, "1", BSL}
FileTok == Tok \cup {NL}
ReadmeTok == {"#", CR, NL}

\* A variable that holds None or a value holds <<>> or <<value>>.
None == <<>>
Some(x) == <<x>>

SeqsUpTo(S, n) == UNION {[1..k -> S] : k \in 0..n}

\* The contents README.md may have.
ReadmeFiles == SeqsUpTo(ReadmeTok, MaxReadmeLen)

\* Number of characters of a token.
TokLen(t) == IF t = Marker THEN 11 ELSE 1

Min(a, b) == IF a <= b THEN a ELSE b

\* ------------------------------------------------------------ str.find

RECURSIVE FindFrom(_, _, _, _)
FindFrom(line, sub, i, off) ==
    IF i > Len(line) THEN -1
    ELSE IF line[i] = sub THEN off
    ELSE FindFrom(line, sub, i + 1, off + TokLen(line[i]))

\* line.find(sub): the character offset of the first occurrence, or -1.
Find(line, sub) == FindFrom(line, sub, 1, 0)

\* Mutant: the marker anywhere in the line ('__version__' in line).
IsVersionLineAnywhere(line) == Find(line, Marker) >= 0

\* line.find('__version__') == 0
IsVersionLine(line) == Find(line, Marker) = 0

\* Mutant: the newline after the coding comment forgotten.
FormatNoNewline(line) == <<CodingComment>> \o line

\* '# -*- coding: utf-8 -*-\n{}'.format(line)
Format(line) == <<CodingComment, NL>> \o line

\* ------------------------------------------------------------ file iteration

RECURSIVE LineEnd(_, _)
\* The index of the last character of the line that starts at index i:
\* its newline, or the last character of the file.
LineEnd(file, i) ==
    IF i >= Len(file) \/ file[i] = NL THEN Min(i, Len(file))
    ELSE LineEnd(file, i + 1)

\* next(script): the line that starts after pos characters, newline included.
NextLine(file, pos) == SubSeq(file, pos + 1, LineEnd(file, pos + 1))

\* ------------------------------------------------------------ readme.read()

\* Mutant: the file read without newline translation (newline='').
TranslateNone(raw) == raw

RECURSIVE Translate(_)
\* Text mode with universal newlines: '\r\n' and a lone '\r' are read as '\n'.
Translate(raw) ==
    IF raw = <<>> THEN <<>>
    ELSE IF raw[1] = CR
         THEN IF Len(raw) >= 2 /\ raw[2] = NL
              THEN <<NL>> \o Translate(SubSeq(raw, 3, Len(raw)))
              ELSE <<NL>> \o Translate(Tail(raw))
    ELSE <<raw[1]>> \o Translate(Tail(raw))

\* ------------------------------------------------------------ exec(): lexemes

\* Values of Python expressions: str (its characters), int, bool.
StrVal(chars) == [t |-> "str", v |-> chars]
IntVal(n) == [t |-> "int", v |-> n]
BoolVal(b) == [t |-> "bool", v |-> b]

\* Lexemes of a statement.
Lexeme(kind, val) == [k |-> kind, v |-> val]

\* The character an octal escape of n digits 1 denotes: \1, \11 (tab), \111.
OctalChar(n) == CASE n = 1 -> "chr(1)" [] n = 2 -> "\t" [] OTHER -> "I"

RECURSIVE RunEnd(_, _, _, _)
\* The index after the longest run of characters of S that starts at i and
\* ends before index limit.
RunEnd(s, i, S, limit) ==
    IF i < limit /\ i <= Len(s) /\ s[i] \in S THEN RunEnd(s, i + 1, S, limit)
    ELSE i

RECURSIVE Decimal(_)
\* The number that n digits 1 denote.
Decimal(n) == IF n = 0 THEN 0 ELSE 10 * Decimal(n - 1) + 1

\* Whether three quotes start at index i.
TripleAt(s, i) ==
    i + 2 <= Len(s) /\ s[i] = QUOTE /\ s[i + 1] = QUOTE /\ s[i + 2] = QUOTE

RECURSIVE ScanStr(_, _, _, _)
\* The rest of a string literal from index j on: the index after its closing
\* quote(s) and the characters it denotes; ok is FALSE when the source ends
\* before the literal does.
ScanStr(s, j, triple, val) ==
    IF j > Len(s) THEN [ok |-> FALSE, next |-> j, val |-> val]
    ELSE IF s[j] = BSL
         THEN IF j + 1 > Len(s) THEN [ok |-> FALSE, next |-> j, val |-> val]
              ELSE IF s[j + 1] \in {BSL, QUOTE}
                   THEN ScanStr(s, j + 2, triple, Append(val, s[j + 1]))
              ELSE IF s[j + 1] = "1"
                   THEN LET e == RunEnd(s, j + 1, {"1"}, j + 4)
                        IN  ScanStr(s, e, triple,
                                    Append(val, OctalChar(e - (j + 1))))
              ELSE IF s[j + 1] = NL
                   THEN ScanStr(s, j + 2, triple, val)
              ELSE ScanStr(s, j + 2, triple, val \o <<BSL, s[j + 1]>>)
    ELSE IF s[j] = QUOTE
         THEN IF ~triple THEN [ok |-> TRUE, next |-> j + 1, val |-> val]
              ELSE IF TripleAt(s, j)
                   THEN [ok |-> TRUE, next |-> j + 3, val |-> val]
              ELSE ScanStr(s, j + 1, triple, Append(val, QUOTE))
    ELSE IF s[j] = NL
         THEN IF triple THEN ScanStr(s, j + 1, triple, Append(val, NL))
              ELSE [ok |-> FALSE, next |-> j, val |-> val]
    ELSE ScanStr(s, j + 1, triple, Append(val, s[j]))

RECURSIVE SkipComment(_, _)
\* The index of the newline that ends the comment at i, or past the end.
SkipComment(s, i) ==
    IF i > Len(s) \/ s[i] = NL THEN i ELSE SkipComment(s, i + 1)

RECURSIVE Lex(_, _, _)
\* The lexemes of source s from index i on, after those of acc; ok is FALSE
\* when the tokenizer rejects the source.  The source is the coding comment
\* and one line: a newline only ends the comment line or the source.
Lex(s, i, acc) ==
    IF i > Len(s) THEN [ok |-> TRUE, toks |-> acc]
    ELSE IF s[i] \in {" ", NL} THEN Lex(s, i + 1, acc)
    ELSE IF s[i] \in {"#", CodingComment} THEN Lex(s, SkipComment(s, i), acc)
    ELSE IF s[i] = BSL THEN [ok |-> FALSE, toks |-> acc]
    ELSE IF s[i] = Marker
         THEN LET e == RunEnd(s, i, {Marker, "1"}, Len(s) + 1)
              IN  Lex(s, e, Append(acc, Lexeme("NAME", SubSeq(s, i, e - 1))))
    ELSE IF s[i] = "1"
         THEN LET e == RunEnd(s, i, {"1"}, Len(s) + 1)
              IN  Lex(s, e, Append(acc, Lexeme("NUM", Decimal(e - i))))
    ELSE IF s[i] = QUOTE
         THEN LET triple == TripleAt(s, i)
                  r == ScanStr(s, IF triple THEN i + 3 ELSE i + 1, triple, <<>>)
              IN  IF r.ok THEN Lex(s, r.next, Append(acc, Lexeme("STR", r.val)))
                  ELSE [ok |-> FALSE, toks |-> acc]
    ELSE IF i + 1 <= Len(s) /\ s[i + 1] = "="
         THEN Lex(s, i + 2, Append(acc, Lexeme("EQEQ", <<>>)))
    ELSE Lex(s, i + 1, Append(acc, Lexeme("EQ", <<>>)))

\* ------------------------------------------------------------ exec(): grammar

RECURSIVE SplitOn(_, _, _, _)
\* The lexemes L from index i on, cut at every lexeme of the given kind.
SplitOn(L, kind, i, cur) ==
    IF i > Len(L) THEN <<cur>>
    ELSE IF L[i].k = kind THEN <<cur>> \o SplitOn(L, kind, i + 1, <<>>)
    ELSE SplitOn(L, kind, i + 1, Append(cur, L[i]))

RECURSIVE ConcatStr(_, _)
\* The characters of adjacent string literals.
ConcatStr(seg, i) ==
    IF i > Len(seg) THEN <<>> ELSE seg[i].v \o ConcatStr(seg, i + 1)

\* An operand: a name, a number, or one or more adjacent string literals.
Operand(seg) ==
    IF Len(seg) = 1 /\ seg[1].k \in {"NAME", "NUM"} THEN seg[1]
    ELSE IF seg # <<>> /\ \A i \in 1..Len(seg) : seg[i].k = "STR"
         THEN Lexeme("STR", ConcatStr(seg, 1))
    ELSE Lexeme("BAD", <<>>)

\* An expression: operands compared with ==.
Operands(seg) ==
    LET parts == SplitOn(seg, "EQEQ", 1, <<>>)
    IN  [i \in 1..Len(parts) |-> Operand(parts[i])]

IsExpr(ops) == \A i \in 1..Len(ops) : ops[i].k # "BAD"

\* An assignment target: a single name.
IsTarget(ops) == Len(ops) = 1 /\ ops[1].k = "NAME"

SameValue(a, b) == a.k = b.k /\ a.v = b.v

RECURSIVE EvalChain(_, _)
\* a == b == c ...: operands are evaluated left to right until two differ.
EvalChain(ops, i) ==
    IF i > Len(ops) THEN [exc |-> "none", val |-> BoolVal(TRUE)]
    ELSE IF ops[i].k = "NAME" THEN [exc |-> "NameError", val |-> BoolVal(FALSE)]
    ELSE IF ~SameValue(ops[i - 1], ops[i])
         THEN [exc |-> "none", val |-> BoolVal(FALSE)]
    ELSE EvalChain(ops, i + 1)

\* The value of an expression, or NameError when a name is evaluated: no name
\* is bound when the line is executed in the empty namespace.
Eval(ops) ==
    IF ops[1].k = "NAME" THEN [exc |-> "NameError", val |-> BoolVal(FALSE)]
    ELSE IF Len(ops) = 1
         THEN [exc |-> "none",
               val |-> IF ops[1].k = "NUM" THEN IntVal(ops[1].v)
                       ELSE StrVal(ops[1].v)]
    ELSE EvalChain(ops, 2)

\* The namespace that binds no name.
EmptyNs == [n \in {} |-> None]

\* exec(text, {}): the exception raised ("none": no exception) and the
\* namespace afterwards.  An assignment t1 = ... = tn = e binds every target
\* to the value of e; an expression alone binds nothing.
ExecText(text) ==
    LET lexed == Lex(text, 1, <<>>)
        segs == SplitOn(lexed.toks, "EQ", 1, <<>>)
        exprs == [i \in 1..Len(segs) |-> Operands(segs[i])]
        n == Len(exprs)
    IN  IF ~lexed.ok THEN [exc |-> "SyntaxError", ns |-> EmptyNs]
        ELSE IF lexed.toks = <<>> THEN [exc |-> "none", ns |-> EmptyNs]
        ELSE IF \E i \in 1..n : ~IsExpr(exprs[i])
             THEN [exc |-> "SyntaxError", ns |-> EmptyNs]
        ELSE IF \E i \in 1..(n - 1) : ~IsTarget(exprs[i])
             THEN [exc |-> "SyntaxError", ns |-> EmptyNs]
        ELSE LET r == Eval(exprs[n])
             IN  IF r.exc # "none" THEN [exc |-> r.exc, ns |-> EmptyNs]
                 ELSE [exc |-> "none",
                       ns |-> [name \in {exprs[i][1].v : i \in 1..(n - 1)}
                                   |-> r.val]]

\* Mutant: None executed as the empty source.
ExecNoneAsEmpty(src) ==
    IF src = None THEN [exc |-> "none", ns |-> EmptyNs] ELSE ExecText(src[1])

\* exec(src, {}) for src None or Some(text): exec(None) raises TypeError.
Exec(src) ==
    IF src = None THEN [exc |-> "TypeError", ns |-> EmptyNs] ELSE ExecText(src[1])

\* ------------------------------------------------------------ the build

\* Mutant: the script looked for under another name.
ScriptPathPy == "thermod-monitor-mqtt.py"

\* open('thermod-monitor-mqtt', 'rt') in get_version()
ScriptPath == "thermod-monitor-mqtt"

\* open('README.md', 'r') in get_readme()
ReadmePath == "README.md"

\* setup(name=...)
PackageName == "thermod-monitor-mqtt"

\* setup(scripts=[...])
Scripts == <<"thermod-monitor-mqtt">>

VARIABLES
    pc,                \* the statement the interpreter is at
    script,            \* the version script on disk: None (no such file) or Some(text)
    readme,            \* README.md as found when it is opened: None or Some(text)
    opened,            \* the paths passed to open(), in order
    scriptOpen,        \* the script's file object is open
    readmeOpen,        \* README.md's file object is open
    pos,               \* characters of the script consumed by the iteration
    nread,             \* lines of the script read by the iteration
    version_str,       \* get_version(): None or Some(text)
    main_ns,           \* get_version(): the namespace given to exec
    version,           \* the argument version=: None until get_version() returns
    txt,               \* get_readme(): None until read() returns
    long_description,  \* the argument long_description=: None until get_readme() returns
    setupCalls,        \* the keyword arguments of every call of setup(), in order
    exc                \* the uncaught exception that ended the build, or "none"

vars == <<pc, script, readme, opened, scriptOpen, readmeOpen, pos, nread,
          version_str, main_ns, version, txt, long_description, setupCalls, exc>>

Init ==
    /\ pc = "get_version"
    /\ \/ script = None
       \/ \E n \in 0..MaxFileLen : \E f \in [1..n -> FileTok] : script = Some(f)
    /\ readme = None
    /\ opened = <<>>
    /\ scriptOpen = FALSE
    /\ readmeOpen = FALSE
    /\ pos = 0
    /\ nread = 0
    /\ version_str = None
    /\ main_ns = EmptyNs
    /\ version = None
    /\ txt = None
    /\ long_description = None
    /\ setupCalls = <<>>
    /\ exc = "none"

\* Mutant: a failed build starts again.
RaiseRetry(e) ==
    /\ pc' = "get_version"
    /\ exc' = e

\* Mutant: the exception is swallowed and the build goes on with README.md.
RaiseSwallowed(e) ==
    /\ pc' = "get_readme"
    /\ exc' = e

\* An exception nothing catches: it leaves every frame and ends the script.
Raise(e) ==
    /\ pc' = "failed"
    /\ exc' = e

\* line 31: with open('thermod-monitor-mqtt','rt') as script
OpenScript ==
    /\ pc = "get_version"
    /\ opened' = Append(opened, ScriptPath)
    /\ IF script = None
       THEN /\ Raise("FileNotFoundError")
            /\ UNCHANGED scriptOpen
       ELSE /\ scriptOpen' = TRUE
            /\ pc' = "scan"
            /\ UNCHANGED exc
    /\ UNCHANGED <<script, readme, readmeOpen, pos, nread, version_str, main_ns,
                   version, txt, long_description, setupCalls>>

\* Mutant: the loop without its break; the last version line wins.
ReadLineNoBreak ==
    /\ pc = "scan"
    /\ pos < Len(script[1])
    /\ LET line == NextLine(script[1], pos)
       IN  /\ pos' = pos + Len(line)
           /\ nread' = nread + 1
           /\ IF IsVersionLine(line)
              THEN version_str' = Some(Format(line))
              ELSE UNCHANGED version_str
    /\ UNCHANGED <<pc, scriptOpen, script, readme, opened, readmeOpen, main_ns,
                   version, txt, long_description, setupCalls, exc>>

\* lines 32-35: one iteration of the loop; the break leaves the with block,
\* which closes the file.
ReadLine ==
    /\ pc = "scan"
    /\ pos < Len(script[1])
    /\ LET line == NextLine(script[1], pos)
       IN  /\ pos' = pos + Len(line)
           /\ nread' = nread + 1
           /\ IF IsVersionLine(line)
              THEN /\ version_str' = Some(Format(line))
                   /\ scriptOpen' = FALSE
                   /\ pc' = "exec"
              ELSE UNCHANGED <<version_str, scriptOpen, pc>>
    /\ UNCHANGED <<script, readme, opened, readmeOpen, main_ns, version, txt,
                   long_description, setupCalls, exc>>

\* Mutant: the file opened without a with block and never closed.
EndOfScriptLeak ==
    /\ pc = "scan"
    /\ pos = Len(script[1])
    /\ pc' = "exec"
    /\ UNCHANGED <<script, readme, opened, scriptOpen, readmeOpen, pos, nread,
                   version_str, main_ns, version, txt, long_description,
                   setupCalls, exc>>

\* line 32 at the end of the file: the loop ends and the with block closes
\* the file.
EndOfScript ==
    /\ pc = "scan"
    /\ pos = Len(script[1])
    /\ scriptOpen' = FALSE
    /\ pc' = "exec"
    /\ UNCHANGED <<script, readme, opened, readmeOpen, pos, nread, version_str,
                   main_ns, version, txt, long_description, setupCalls, exc>>

\* line 37: exec(version_str, main_ns)
ExecVersion ==
    /\ pc = "exec"
    /\ LET r == Exec(version_str)
       IN  IF r.exc # "none"
           THEN /\ Raise(r.exc)
                /\ UNCHANGED main_ns
           ELSE /\ main_ns' = r.ns
                /\ pc' = "return_version"
                /\ UNCHANGED exc
    /\ UNCHANGED <<script, readme, opened, scriptOpen, readmeOpen, pos, nread,
                   version_str, version, txt, long_description, setupCalls>>

\* Mutant: the namespace asked for 'version'.
ReturnVersionWrongKey ==
    /\ pc = "return_version"
    /\ IF <<"version">> \in DOMAIN main_ns
       THEN /\ version' = Some(main_ns[<<"version">>])
            /\ pc' = "get_readme"
            /\ UNCHANGED exc
       ELSE /\ Raise("KeyError")
            /\ UNCHANGED version
    /\ UNCHANGED <<script, readme, opened, scriptOpen, readmeOpen, pos, nread,
                   version_str, main_ns, txt, long_description, setupCalls>>

\* line 38: return main_ns['__version__'], the value of version= (line 46)
ReturnVersion ==
    /\ pc = "return_version"
    /\ IF <<Marker>> \in DOMAIN main_ns
       THEN /\ version' = Some(main_ns[<<Marker>>])
            /\ pc' = "get_readme"
            /\ UNCHANGED exc
       ELSE /\ Raise("KeyError")
            /\ UNCHANGED version
    /\ UNCHANGED <<script, readme, opened, scriptOpen, readmeOpen, pos, nread,
                   version_str, main_ns, txt, long_description, setupCalls>>

\* line 41: with open('README.md', 'r') as readme
OpenReadme ==
    /\ pc = "get_readme"
    /\ opened' = Append(opened, ReadmePath)
    /\ \E f \in {None} \cup {Some(r) : r \in ReadmeFiles} :
        /\ readme' = f
        /\ IF f = None
           THEN /\ Raise("FileNotFoundError")
                /\ UNCHANGED readmeOpen
           ELSE /\ readmeOpen' = TRUE
                /\ pc' = "read"
                /\ UNCHANGED exc
    /\ UNCHANGED <<script, scriptOpen, pos, nread, version_str, main_ns, version,
                   txt, long_description, setupCalls>>

\* line 42: txt = readme.read(); the with block then closes the file.
ReadReadme ==
    /\ pc = "read"
    /\ txt' = Some(Translate(readme[1]))
    /\ readmeOpen' = FALSE
    /\ pc' = "return_readme"
    /\ UNCHANGED <<script, readme, opened, scriptOpen, pos, nread, version_str,
                   main_ns, version, long_description, setupCalls, exc>>

\* line 43: return txt, the value of long_description= (line 50)
ReturnReadme ==
    /\ pc = "return_readme"
    /\ long_description' = txt
    /\ pc' = "setup"
    /\ UNCHANGED <<script, readme, opened, scriptOpen, readmeOpen, pos, nread,
                   version_str, main_ns, version, txt, setupCalls, exc>>

\* lines 45-64: the call of setup() with the evaluated arguments
CallSetup ==
    /\ pc = "setup"
    /\ setupCalls' = Append(setupCalls,
                            [name |-> PackageName,
                             version |-> version[1],
                             long_description |-> long_description[1],
                             scripts |-> Scripts])
    /\ pc' = "done"
    /\ UNCHANGED <<script, readme, opened, scriptOpen, readmeOpen, pos, nread,
                   version_str, main_ns, version, txt, long_description, exc>>

Next ==
    \/ OpenScript
    \/ ReadLine
    \/ EndOfScript
    \/ ExecVersion
    \/ ReturnVersion
    \/ OpenReadme
    \/ ReadReadme
    \/ ReturnReadme
    \/ CallSetup

Spec == Init /\ [][Next]_vars

\* ------------------------------------------------------------ what the claims speak of

\* The indices at which the lines of a file start.
LineStarts(f) == {i \in 1..Len(f) : i = 1 \/ f[i - 1] = NL}

\* The line of f that starts at index i, with its newline if it has one.
LineFrom(f, i) ==
    LET ends == {j \in i..Len(f) : f[j] = NL \/ j = Len(f)}
        e == CHOOSE j \in ends : \A k \in ends : j <= k
    IN  SubSeq(f, i, e)

\* The starts of the lines that begin with the version marker.
MarkerStarts(f) == {i \in LineStarts(f) : f[i] = Marker}

\* The start of the first of them.
FirstMarkerStart(f) == CHOOSE i \in MarkerStarts(f) : \A k \in MarkerStarts(f) : i <= k

AllSpaces(line, a, b) == \A k \in a..b : line[k] = " "

\* After index j the line holds only spaces and then ends or goes on with a
\* comment.
TailOk(line, j) ==
    \E k \in j..Len(line) :
        /\ AllSpaces(line, j + 1, k)
        /\ (k = Len(line) \/ line[k + 1] \in {"#", NL})

\* The index of the "=" of a line of the form __version__ = ..., if it is one.
AssignAt(line) ==
    {e \in 2..Len(line) :
        line[1] = Marker /\ line[e] = "=" /\ AllSpaces(line, 2, e - 1)}

\* The literals L for which the line is __version__ = 'L', where L holds no
\* quote and no backslash, with an optional comment after it: none or one.
PlainLiterals(line) ==
    UNION {UNION {{SubSeq(line, q1 + 1, q2 - 1) :
                     q2 \in {q \in (q1 + 1)..Len(line) :
                               /\ line[q] = QUOTE
                               /\ \A k \in (q1 + 1)..(q - 1) :
                                      line[k] \notin {QUOTE, BSL, NL}
                               /\ TailOk(line, q)}} :
                  q1 \in {q \in (e + 1)..Len(line) :
                            line[q] = QUOTE /\ AllSpaces(line, e + 1, q - 1)}} :
           e \in AssignAt(line)}

\* The line is __version__ = <literal>, the literal a decimal integer or a
\* quoted string without quote and backslash, with an optional comment after
\* it.
LiteralAssign(line) ==
    \/ PlainLiterals(line) # {}
    \/ \E e \in AssignAt(line) : \E v \in (e + 1)..Len(line) :
          /\ AllSpaces(line, e + 1, v - 1)
          /\ \E w \in v..Len(line) :
                (\A k \in v..w : line[k] = "1") /\ TailOk(line, w)

\* get_version() has returned or raised.
VersionOver == pc \notin {"get_version", "scan", "exec", "return_version"}

\* The scan of the script is over.
ScanOver == pc \notin {"get_version", "scan"}

\* get_version() raised.
VersionFailed == pc = "failed" /\ version = None

\* How often a path was passed to open().
Opens(path) == Cardinality({i \in 1..Len(opened) : opened[i] = path})

\* ------------------------------------------------------------ C1

\* C1 as stated: whenever the script holds a line __version__ = 'L',
\* get_version() returns the string L.
C1_AnyLine ==
    (script # None /\ VersionOver) =>
        \A i \in MarkerStarts(script[1]) :
            \A L \in PlainLiterals(LineFrom(script[1], i)) :
                version = Some([t |-> "str", v |-> L])

\* C1 amended: when the first line of the script that starts with the marker
\* is __version__ = 'L', L without quote and backslash, get_version() returns
\* exactly the string L.
C1_FirstLine ==
    (script # None /\ VersionOver /\ MarkerStarts(script[1]) # {}) =>
        \A L \in PlainLiterals(LineFrom(script[1], FirstMarkerStart(script[1]))) :
            version = Some([t |-> "str", v |-> L])

\* A script whose version line, newline included, holds a literal of one
\* character has had its version returned.
C1_Witness ==
    /\ script # None
    /\ pc = "get_readme"
    /\ MarkerStarts(script[1]) # {}
    /\ script[1][Len(script[1])] = NL
    /\ \E L \in PlainLiterals(LineFrom(script[1], FirstMarkerStart(script[1]))) :
          Len(L) = 1 /\ version = Some([t |-> "str", v |-> L])

\* ------------------------------------------------------------ C2

\* C2: a script in which no line starts with the marker never has setup()
\* called; once exec has been reached the build has failed, with the
\* TypeError of exec(None).
C2_NoVersionLineFails ==
    (script # None /\ MarkerStarts(script[1]) = {}) =>
        /\ setupCalls = <<>>
        /\ pc # "done"
        /\ version_str = None
        /\ pc \notin {"get_version", "scan", "exec"} =>
              pc = "failed" /\ exc = "TypeError" /\ version = None

\* A script of two lines, neither a version line, has failed the build.
C2_Witness ==
    /\ script # None
    /\ MarkerStarts(script[1]) = {}
    /\ Cardinality(LineStarts(script[1])) = 2
    /\ pc = "failed"
    /\ exc = "TypeError"

\* ------------------------------------------------------------ C3

\* C3 as stated: the long_description given to setup() is README.md,
\* character for character.
C3_Verbatim ==
    \A i \in 1..Len(setupCalls) : setupCalls[i].long_description = readme[1]

\* The characters of README.md that are read: all but the carriage return of
\* a carriage return + line feed.
ReadmeKept(raw) ==
    {i \in 1..Len(raw) : ~(raw[i] = CR /\ i < Len(raw) /\ raw[i + 1] = NL)}

\* C3 amended: the long_description is README.md with every line ending
\* (\r\n, \r, \n) read as \n and every other character kept, in order; it is
\* README.md character for character when README.md holds no carriage return.
C3_NewlinesTranslated ==
    \A c \in 1..Len(setupCalls) :
        LET raw == readme[1]
            ld == setupCalls[c].long_description
        IN  /\ Len(ld) = Cardinality(ReadmeKept(raw))
            /\ \A i \in ReadmeKept(raw) :
                  ld[Cardinality({j \in ReadmeKept(raw) : j <= i})]
                      = IF raw[i] = CR THEN NL ELSE raw[i]
            /\ (\A i \in 1..Len(raw) : raw[i] # CR) => ld = raw

\* setup() was called with a README.md of three characters, one of them a
\* carriage return.
C3_Witness ==
    /\ pc = "done"
    /\ Len(readme[1]) = 3
    /\ \E i \in 1..3 : readme[1][i] = CR
    /\ \E i \in 1..3 : readme[1][i] = "#"

\* ------------------------------------------------------------ C4

\* C4 as stated: get_version() does not fail on a script that holds a line
\* starting with the marker.
C4_AnyVersionLine ==
    (script # None /\ MarkerStarts(script[1]) # {}) => ~VersionFailed

\* C4 amended: get_version() completes without error and returns a value
\* when the first line starting with the marker is __version__ = <literal>,
\* the literal a decimal integer or a quoted string without backslash.
C4_LiteralAssign ==
    (/\ script # None
     /\ MarkerStarts(script[1]) # {}
     /\ LiteralAssign(LineFrom(script[1], FirstMarkerStart(script[1])))) =>
        /\ ~VersionFailed
        /\ VersionOver => version # None

\* get_version() has returned the number of a version line __version__ = 11.
C4_Witness ==
    /\ script # None
    /\ MarkerStarts(script[1]) # {}
    /\ LiteralAssign(LineFrom(script[1], FirstMarkerStart(script[1])))
    /\ pc = "get_readme"
    /\ version = Some([t |-> "int", v |-> 11])

\* ------------------------------------------------------------ C5

\* C5: every call of setup() declares exactly one script, named as the
\* package and as the file get_version() opened.
C5_OneScriptNamedAsPackage ==
    \A i \in 1..Len(setupCalls) :
        /\ Len(setupCalls[i].scripts) = 1
        /\ setupCalls[i].scripts[1] = setupCalls[i].name
        /\ setupCalls[i].scripts[1] = opened[1]

\* setup() has been called.
C5_Witness == pc = "done" /\ Len(setupCalls) = 1 /\ Len(opened) = 2

\* ------------------------------------------------------------ C6

\* C6: the line given to exec is a line of the script whose first token is
\* the marker; when no line has the marker at offset 0 no line is selected
\* and exec gets None, wherever else the marker occurs.
C6_MarkerAtOffsetZero ==
    (script # None /\ ScanOver) =>
        /\ version_str = None <=> MarkerStarts(script[1]) = {}
        /\ version_str # None =>
              \E i \in MarkerStarts(script[1]) :
                  version_str = Some(<<CodingComment, NL>> \o LineFrom(script[1], i))
        /\ (MarkerStarts(script[1]) = {} /\ pc \notin {"exec"}) =>
              pc = "failed" /\ exc = "TypeError"

\* A script with the marker after a space in one line and inside a quoted
\* string in another, never at the start of a line, was scanned to its end
\* and failed.
C6_Witness ==
    /\ script # None
    /\ MarkerStarts(script[1]) = {}
    /\ \E i, j \in 2..Len(script[1]) :
          /\ script[1][i] = Marker /\ script[1][i - 1] = " "
          /\ script[1][j] = Marker /\ script[1][j - 1] = QUOTE
    /\ pc = "failed"
    /\ exc = "TypeError"

\* ------------------------------------------------------------ C7

\* C7: no step follows a failure (or the call of setup()), and after every
\* step the script was opened at most once, README.md at most once, setup()
\* called at most once and, if the build has failed, not at all.
C7_SingleShot ==
    [][/\ pc \notin {"failed", "done"}
       /\ Cardinality({i \in 1..Len(opened') : opened'[i] = ScriptPath}) <= 1
       /\ Cardinality({i \in 1..Len(opened') : opened'[i] = ReadmePath}) <= 1
       /\ Len(setupCalls') <= 1
       /\ pc' = "failed" => setupCalls' = <<>>]_vars

\* The build has failed in get_version() after the script was opened once.
C7_Witness ==
    /\ pc = "failed"
    /\ exc = "KeyError"
    /\ Opens(ScriptPath) = 1
    /\ Opens(ReadmePath) = 0
    /\ setupCalls = <<>>

\* ------------------------------------------------------------ C8

\* C8: once the scan is over, the line given to exec is the first line that
\* starts with the marker, the iteration has read up to that line and no
\* further, and the namespace or the exception of exec is that of this line.
C8_FirstVersionLineOnly ==
    (script # None /\ ScanOver /\ MarkerStarts(script[1]) # {}) =>
        LET first == FirstMarkerStart(script[1])
            line == LineFrom(script[1], first)
            r == Exec(Some(<<CodingComment, NL>> \o line))
        IN  /\ version_str = Some(<<CodingComment, NL>> \o line)
            /\ pos = first + Len(line) - 1
            /\ nread = Cardinality({i \in LineStarts(script[1]) : i <= first})
            /\ pc # "exec" =>
                  IF r.exc # "none"
                  THEN pc = "failed" /\ exc = r.exc /\ version = None
                  ELSE main_ns = r.ns

\* A first version line that raises was executed although a later version
\* line binds __version__: the build failed.
C8_Witness ==
    /\ script # None
    /\ Cardinality(MarkerStarts(script[1])) = 2
    /\ \E i \in MarkerStarts(script[1]) :
          /\ i # FirstMarkerStart(script[1])
          /\ LiteralAssign(LineFrom(script[1], i))
    /\ pc = "failed"
    /\ exc = "NameError"
    /\ nread = 1

\* ------------------------------------------------------------ C9

\* C9: README.md is opened only after get_version() has returned, setup() is
\* called only after both functions have returned; README.md is not opened
\* when get_version() failed, setup() is not called when get_readme() failed.
C9_FixedOrder ==
    /\ Opens(ReadmePath) > 0 =>
          /\ version # None
          /\ opened[1] = ScriptPath
          /\ ~scriptOpen
          /\ <<Marker>> \in DOMAIN main_ns
    /\ setupCalls # <<>> =>
          /\ version # None
          /\ long_description # None
          /\ opened = <<ScriptPath, ReadmePath>>
    /\ VersionFailed => Opens(ReadmePath) = 0 /\ setupCalls = <<>>
    /\ (pc = "failed" /\ long_description = None) => setupCalls = <<>>

\* get_version() returned, README.md was not found, the build failed.
C9_Witness ==
    /\ pc = "failed"
    /\ exc = "FileNotFoundError"
    /\ opened = <<ScriptPath, ReadmePath>>
    /\ version # None
    /\ setupCalls = <<>>

\* ------------------------------------------------------------ C10

\* C10: the script is open only during the scan and README.md only until it
\* has been read: at exec, when setup() is called and when the build has
\* failed, no file is open.
C10_NoOpenFile ==
    /\ scriptOpen => pc = "scan"
    /\ readmeOpen => pc = "read"
    /\ pc \in {"exec", "setup", "done", "failed"} => ~scriptOpen /\ ~readmeOpen

\* The scan reached the end of a script of two lines without a match and the
\* build came to exec with the script closed.
C10_Witness ==
    /\ pc = "exec"
    /\ version_str = None
    /\ nread = 2
    /\ ~scriptOpen

=============================================================================
